---- MODULE Spec2Model ----
(***************************************************************************)
(* Model of login_setup.py: the interactive Monarch Money login script.    *)
(* One run of main() is a sequential process; pc is its position.  Each    *)
(* external call (secure store, API client, prompt) is one step whose      *)
(* outcome (a return value or a raised exception) is chosen by the         *)
(* environment.  Text is a sequence of one-character strings, so that      *)
(* strip(), lower() and the regular expressions of _normalize_token are    *)
(* computed, not assumed.                                                  *)
(***************************************************************************)
EXTENDS Integers, Sequences, FiniteSets, TLC

\* The largest number of accounts a get_accounts() listing holds in the model.
MaxAccounts == 2

-----------------------------------------------------------------------------
(* Text: str.strip, str.lower, the character classes of the re module.     *)

UpperCase == <<"A","B","C","D","E","F","G","H","I","J","K","L","M",
               "N","O","P","Q","R","S","T","U","V","W","X","Y","Z">>
LowerCase == <<"a","b","c","d","e","f","g","h","i","j","k","l","m",
               "n","o","p","q","r","s","t","u","v","w","x","y","z">>
Digits == {"0","1","2","3","4","5","6","7","8","9"}

\* \s of re, and the characters str.strip() removes
Whitespace == {" ", "\t", "\n", "\r"}

\* the argument of .strip("\"'")
Quotes == {"\"", "'"}

Range(s) == {s[i] : i \in 1..Len(s)}

\* \w of re: a letter, a digit or the underscore
IsWordChar(c) == c \in Range(UpperCase) \cup Range(LowerCase) \cup Digits \cup {"_"}

LowerChar(c) ==
    IF c \in Range(UpperCase)
    THEN LowerCase[CHOOSE i \in 1..Len(UpperCase) : UpperCase[i] = c]
    ELSE c

\* str.lower()
Lower(s) == [i \in 1..Len(s) |-> LowerChar(s[i])]

\* str.strip(chars): drop the leading and trailing characters that are in chars
StripChars(s, chars) ==
    LET keep == {i \in 1..Len(s) : s[i] \notin chars}
    IN  IF keep = {} THEN << >>
        ELSE LET first == CHOOSE i \in keep : \A j \in keep : i <= j
                 last  == CHOOSE i \in keep : \A j \in keep : j <= i
             IN  SubSeq(s, first, last)

\* str.strip()
Strip(s) == StripChars(s, Whitespace)

\* s[i:].startswith(w)
StartsWithAt(s, w, i) ==
    /\ i + Len(w) - 1 <= Len(s)
    /\ \A k \in 1..Len(w) : s[i + k - 1] = w[k]

StartsWith(s, w) == StartsWithAt(s, w, 1)

EndsWith(s, w) == Len(w) <= Len(s) /\ StartsWithAt(s, w, Len(s) - Len(w) + 1)

\* w in s
Contains(s, w) == \E i \in 1..(Len(s) + 1) : StartsWithAt(s, w, i)

\* s[n:]
DropFirst(s, n) == IF n >= Len(s) THEN << >> ELSE SubSeq(s, n + 1, Len(s))

Min(S) == CHOOSE x \in S : \A y \in S : x <= y

\* the first index j >= i with s[j] not in chars (Len(s) + 1 when there is none)
SkipWhile(s, i, chars) ==
    LET stop == {j \in i..Len(s) : s[j] \notin chars}
    IN  IF stop = {} THEN Len(s) + 1 ELSE Min(stop)

\* the first index j >= i with s[j] in chars (Len(s) + 1 when there is none)
SkipUntil(s, i, chars) ==
    LET stop == {j \in i..Len(s) : s[j] \in chars}
    IN  IF stop = {} THEN Len(s) + 1 ELSE Min(stop)

-----------------------------------------------------------------------------
(* json.loads, as far as _normalize_token depends on it: whether the text  *)
(* is one JSON value, and the string-valued members of a top-level object. *)
(* Escapes \b, \f and \uXXXX are outside the model's alphabet.             *)

JsonFail == [ok |-> FALSE, next |-> 0, str |-> FALSE, val |-> << >>, members |-> << >>]

JsonOk(next, str, val, members) ==
    [ok |-> TRUE, next |-> next, str |-> str, val |-> val, members |-> members]

JsonWhitespace == {" ", "\t", "\n", "\r"}

JsonEscapes == {"\"", "\\", "/", "n", "r", "t"}

JsonUnescape(c) ==
    CASE c = "n" -> "\n"
      [] c = "r" -> "\r"
      [] c = "t" -> "\t"
      [] OTHER -> c

RECURSIVE JsonString(_, _, _)
\* the string whose opening quote is at j - 1 (strict mode: no control characters)
JsonString(s, j, acc) ==
    IF j > Len(s) THEN JsonFail
    ELSE IF s[j] = "\"" THEN JsonOk(j + 1, TRUE, acc, << >>)
    ELSE IF s[j] = "\\"
         THEN IF j + 1 <= Len(s) /\ s[j + 1] \in JsonEscapes
              THEN JsonString(s, j + 2, Append(acc, JsonUnescape(s[j + 1])))
              ELSE JsonFail
    ELSE IF s[j] \in {"\t", "\n", "\r"} THEN JsonFail
    ELSE JsonString(s, j + 1, Append(acc, s[j]))

\* NUMBER_RE: (-?(?:0|[1-9]\d*))(\.\d+)?([eE][-+]?\d+)?
JsonNumber(s, i) ==
    LET i0 == IF i <= Len(s) /\ s[i] = "-" THEN i + 1 ELSE i
    IN  IF i0 > Len(s) \/ s[i0] \notin Digits THEN JsonFail
        ELSE LET intEnd == IF s[i0] = "0" THEN i0 + 1 ELSE SkipWhile(s, i0, Digits)
                 fracTo == SkipWhile(s, intEnd + 1, Digits)
                 fracEnd == IF intEnd <= Len(s) /\ s[intEnd] = "." /\ fracTo > intEnd + 1
                            THEN fracTo ELSE intEnd
                 expAt == IF fracEnd + 1 <= Len(s) /\ s[fracEnd + 1] \in {"+", "-"}
                          THEN fracEnd + 2 ELSE fracEnd + 1
                 expTo == SkipWhile(s, expAt, Digits)
                 expEnd == IF fracEnd <= Len(s) /\ s[fracEnd] \in {"e", "E"} /\ expTo > expAt
                           THEN expTo ELSE fracEnd
             IN  JsonOk(expEnd, FALSE, << >>, << >>)

JsonLiterals == << <<"n","u","l","l">>, <<"t","r","u","e">>, <<"f","a","l","s","e">>,
                   <<"N","a","N">>, <<"I","n","f","i","n","i","t","y">>,
                   <<"-","I","n","f","i","n","i","t","y">> >>

RECURSIVE JsonValue(_, _)
RECURSIVE JsonMembers(_, _, _)
RECURSIVE JsonElements(_, _)

\* the members of an object, from the opening quote of a key at i
JsonMembers(s, i, acc) ==
    IF i > Len(s) \/ s[i] # "\"" THEN JsonFail
    ELSE LET key == JsonString(s, i + 1, << >>)
         IN  IF ~key.ok THEN JsonFail
             ELSE LET colon == SkipWhile(s, key.next, JsonWhitespace)
                  IN  IF colon > Len(s) \/ s[colon] # ":" THEN JsonFail
                      ELSE LET v == JsonValue(s, SkipWhile(s, colon + 1, JsonWhitespace))
                           IN  IF ~v.ok THEN JsonFail
                               ELSE LET e == SkipWhile(s, v.next, JsonWhitespace)
                                        more == Append(acc, [key |-> key.val, str |-> v.str, val |-> v.val])
                                    IN  IF e > Len(s) THEN JsonFail
                                        ELSE IF s[e] = "}" THEN JsonOk(e + 1, FALSE, << >>, more)
                                        ELSE IF s[e] = ","
                                             THEN JsonMembers(s, SkipWhile(s, e + 1, JsonWhitespace), more)
                                        ELSE JsonFail

\* the elements of an array, from the first character of an element at i
JsonElements(s, i) ==
    LET v == JsonValue(s, i)
    IN  IF ~v.ok THEN JsonFail
        ELSE LET e == SkipWhile(s, v.next, JsonWhitespace)
             IN  IF e > Len(s) THEN JsonFail
                 ELSE IF s[e] = "]" THEN JsonOk(e + 1, FALSE, << >>, << >>)
                 ELSE IF s[e] = ","
                      THEN JsonElements(s, SkipWhile(s, e + 1, JsonWhitespace))
                 ELSE JsonFail

\* the JSON value that starts at i
JsonValue(s, i) ==
    IF i > Len(s) THEN JsonFail
    ELSE IF s[i] = "\"" THEN JsonString(s, i + 1, << >>)
    ELSE IF s[i] = "{"
         THEN LET j == SkipWhile(s, i + 1, JsonWhitespace)
              IN  IF j <= Len(s) /\ s[j] = "}" THEN JsonOk(j + 1, FALSE, << >>, << >>)
                  ELSE JsonMembers(s, j, << >>)
    ELSE IF s[i] = "["
         THEN LET j == SkipWhile(s, i + 1, JsonWhitespace)
              IN  IF j <= Len(s) /\ s[j] = "]" THEN JsonOk(j + 1, FALSE, << >>, << >>)
                  ELSE JsonElements(s, j)
    ELSE IF \E k \in 1..3 : StartsWithAt(s, JsonLiterals[k], i)
         THEN LET k == CHOOSE k \in 1..3 : StartsWithAt(s, JsonLiterals[k], i)
              IN  JsonOk(i + Len(JsonLiterals[k]), FALSE, << >>, << >>)
    ELSE IF JsonNumber(s, i).ok THEN JsonNumber(s, i)
    ELSE IF \E k \in 4..6 : StartsWithAt(s, JsonLiterals[k], i)
         THEN LET k == CHOOSE k \in 4..6 : StartsWithAt(s, JsonLiterals[k], i)
              IN  JsonOk(i + Len(JsonLiterals[k]), FALSE, << >>, << >>)
    ELSE JsonFail

\* json.loads(s): the value must span the whole text (else "Extra data")
JsonLoads(s) ==
    LET start == SkipWhile(s, 1, JsonWhitespace)
        v == JsonValue(s, start)
    IN  IF v.ok /\ SkipWhile(s, v.next, JsonWhitespace) = Len(s) + 1 THEN v ELSE JsonFail

\* obj.get(key): the last member of that name, or None
JsonGet(members, key) ==
    LET at == {i \in 1..Len(members) : members[i].key = key}
    IN  IF at = {} THEN [str |-> FALSE, val |-> << >>]
        ELSE LET last == CHOOSE i \in at : \A j \in at : j <= i
             IN  [str |-> members[last].str, val |-> members[last].val]

-----------------------------------------------------------------------------
(* _normalize_token                                                        *)

Bearer == <<"b","e","a","r","e","r">>
Token == <<"t","o","k","e","n">>
Authorization == <<"a","u","t","h","o","r","i","z","a","t","i","o","n">>
AccessTokenSnake == <<"a","c","c","e","s","s","_","t","o","k","e","n">>
AccessTokenCamel == <<"a","c","c","e","s","s","T","o","k","e","n">>

\* faulty variant: the snake-case key is not looked up
JsonKeysWithoutSnake == <<Token, AccessTokenCamel>>

\* for key in ("token", "access_token", "accessToken")
JsonKeys == <<Token, AccessTokenSnake, AccessTokenCamel>>

\* for prefix in ("bearer ", "token ")
Prefixes == <<Bearer \o <<" ">>, Token \o <<" ">> >>

\* faulty variant: the search is case-sensitive (the (?i) flag is missing)
HeaderMatchesCaseSensitive(s, word) ==
    {i \in 1..Len(s) :
        /\ StartsWithAt(s, word, i)
        /\ (i = 1 \/ ~IsWordChar(s[i - 1]))
        /\ i + Len(word) <= Len(s)
        /\ s[i + Len(word)] \in Whitespace
        /\ SkipWhile(s, i + Len(word), Whitespace) <= Len(s)}

\* where (?i)\b<word>\s+([^\s]+) matches in s: the indices of the word's first letter
HeaderMatches(s, word) ==
    {i \in 1..Len(s) :
        /\ StartsWithAt(Lower(s), word, i)
        /\ (i = 1 \/ ~IsWordChar(s[i - 1]))
        /\ i + Len(word) <= Len(s)
        /\ s[i + Len(word)] \in Whitespace
        /\ SkipWhile(s, i + Len(word), Whitespace) <= Len(s)}

\* group(1) of the match whose \s+ starts at index ws: the run of non-blanks
\* after the blanks
HeaderGroup(s, ws) ==
    SubSeq(s, SkipWhile(s, ws, Whitespace),
              SkipUntil(s, SkipWhile(s, ws, Whitespace), Whitespace) - 1)

\* the leftmost of the matches at the indices in at
LeftmostGroup(s, word, at) ==
    IF at = {} THEN [found |-> FALSE, group |-> << >>]
    ELSE [found |-> TRUE, group |-> HeaderGroup(s, Min(at) + Len(word))]

\* re.search(r"(?i)\b<word>\s+([^\s]+)", s): group(1) of the leftmost match
HeaderSearch(s, word) == LeftmostGroup(s, word, HeaderMatches(s, word))

\* lines 72-76: the first of the keys whose value is a non-blank string replaces s
PickKey(s, obj, hit) == IF hit = {} THEN s ELSE Strip(JsonGet(obj, JsonKeys[Min(hit)]).val)

\* lines 71-78: a text that does not parse is kept as it is
UnwrapParsed(s, parsed) ==
    IF ~parsed.ok THEN s
    ELSE PickKey(s, parsed.members,
                 {k \in 1..Len(JsonKeys) :
                     /\ JsonGet(parsed.members, JsonKeys[k]).str
                     /\ Strip(JsonGet(parsed.members, JsonKeys[k]).val) # << >>})

\* lines 68-78: a pasted JSON object is replaced by its first non-blank string
\* among the keys token, access_token, accessToken; anything else is kept
UnwrapJson(s) ==
    IF StartsWith(s, <<"{">>) /\ EndsWith(s, <<"}">>) THEN UnwrapParsed(s, JsonLoads(s)) ELSE s

\* lines 92-95: drop one leading "bearer " or "token "
DropPrefix(s, hit) ==
    IF hit = {} THEN s ELSE Strip(DropFirst(s, Len(Prefixes[Min(hit)])))

\* lines 90-97: drop the prefix, then whitespace and quotes
StripPrefix(s) ==
    StripChars(Strip(DropPrefix(s, {k \in 1..Len(Prefixes) : StartsWith(Lower(s), Prefixes[k])})),
               Quotes)

\* .group(1).strip().strip("\"'")
Unquoted(match) == [found |-> match.found, value |-> StripChars(Strip(match.group), Quotes)]

\* lines 86-88: a Token header counts only in a text that mentions "authorization"
TokenHeader(s, match) ==
    IF match.found /\ Contains(Lower(s), Authorization)
    THEN Unquoted(match)
    ELSE [found |-> FALSE, value |-> << >>]

\* lines 82-88: the value of a Bearer header, else of a Token header
BearerHeader(s, match) ==
    IF match.found THEN Unquoted(match) ELSE TokenHeader(s, HeaderSearch(s, Token))

HeaderValue(s) == BearerHeader(s, HeaderSearch(s, Bearer))

\* lines 82-97, on the text left by the JSON step
Extract(s, header) == IF header.found THEN header.value ELSE StripPrefix(s)

\* lines 68-97, on the stripped text
NormalizeStripped(s, unwrapped) ==
    IF s = << >> THEN << >> ELSE Extract(unwrapped, HeaderValue(unwrapped))

_normalize_token(raw) == NormalizeStripped(Strip(raw), UnwrapJson(Strip(raw)))

-----------------------------------------------------------------------------
(* Python values returned by get_accounts(), and the operations             *)
(* _test_connection applies to them.                                       *)

PyNone == [t |-> "NoneType", v |-> << >>]
PyInt(n) == [t |-> "int", v |-> n]
PyList(items) == [t |-> "list", v |-> items]
PyDict(map) == [t |-> "dict", v |-> map]

\* bool(x)
Truthy(x) ==
    CASE x.t = "NoneType" -> FALSE
      [] x.t = "int" -> x.v # 0
      [] x.t = "list" -> Len(x.v) > 0
      [] x.t = "dict" -> DOMAIN x.v # {}

\* x.get(key, default) of a dict
DictGet(x, key, default) == IF key \in DOMAIN x.v THEN x.v[key] ELSE default

\* len(x) is defined for lists and dicts; otherwise it raises TypeError
HasLen(x) == x.t \in {"list", "dict"}

PyLen(x) == IF x.t = "list" THEN Len(x.v) ELSE Cardinality(DOMAIN x.v)

\* what one await of mm.get_accounts() can produce: a value, or an exception
Returned(value) == [raised |-> "none", value |-> value]
Raised(e) == [raised |-> e, value |-> PyNone]

\* faulty variant: a response that is not a dict counts as no accounts
_test_connection_lenient(outcome) ==
    LET accounts == outcome.value
    IN  IF outcome.raised # "none"
        THEN [ok |-> FALSE, count |-> 0, error |-> outcome.raised]
        ELSE IF accounts.t # "dict"
        THEN [ok |-> TRUE, count |-> 0, error |-> "none"]
        ELSE IF ~HasLen(DictGet(accounts, "accounts", PyList(<< >>)))
        THEN [ok |-> FALSE, count |-> 0, error |-> "TypeError"]
        ELSE [ok |-> TRUE, count |-> PyLen(DictGet(accounts, "accounts", PyList(<< >>))),
              error |-> "none"]

\* lines 100-105: the account count, or the exception that leaves the function
_test_connection(outcome) ==
    LET accounts == outcome.value
    IN  IF outcome.raised # "none"
        THEN [ok |-> FALSE, count |-> 0, error |-> outcome.raised]
        ELSE IF ~Truthy(accounts) \/ accounts.t # "dict"
        THEN [ok |-> FALSE, count |-> 0, error |-> "RuntimeError"]
        ELSE IF ~HasLen(DictGet(accounts, "accounts", PyList(<< >>)))
        THEN [ok |-> FALSE, count |-> 0, error |-> "TypeError"]
        ELSE [ok |-> TRUE, count |-> PyLen(DictGet(accounts, "accounts", PyList(<< >>))),
              error |-> "none"]

-----------------------------------------------------------------------------
(* The inputs of a run: what the user types and what the collaborators do.  *)

\* typed at the two yes/no prompts
AnswerInputs == { <<"y">>, <<" ","Y","E","S"," ">>, <<"n">>, << >>, <<"y","e","p">> }

\* typed at "Choose (1/2) [1]: "
ChoiceInputs == { << >>, <<"1">>, <<"2">>, <<" ","S","S","O">>, <<"t","o","k","e","n">>,
                  <<"a","p","p","l","e">>, <<"G","o","o","g","l","e">>, <<"3">> }

Emails == { <<"a","@","x">>, <<"b","@","x">> }
Passwords == { <<"p","w">> }
MfaCodes == { <<"0","0","0","0","0","0">>, <<"1","2","3","4","5","6">> }

\* pasted at the token prompt
RawTokens ==
    { << >>,
      <<" "," ">>,
      <<"\"","\"">>,
      <<"B","e","a","r","e","r"," ","'">>,
      <<"a","b","c">>,
      <<"t","o","k","e","n"," ","a","b","c">>,
      <<"A","u","t","h","o","r","i","z","a","t","i","o","n",":"," ",
        "B","e","a","r","e","r"," ","a","b","c",".","d","e","f","-","1","2","3">>,
      <<"{","\"","a","c","c","e","s","s","_","t","o","k","e","n","\"",":","\"","v","1","\"","}">> }

\* what login() and multi_factor_authenticate() can raise
LoginExceptions == {"RequireMFAException", "LoginFailedException"}

\* the listing of n accounts
AccountList(n) == PyList([i \in 1..n |-> i])

\* what get_accounts() can return
Responses ==
    << PyNone, PyInt(0), PyInt(5), PyList(<< >>), PyList(<<1>>), PyDict(<< >>),
       PyDict([errors |-> PyNone]), PyDict([accounts |-> PyNone]) >>
    \o [n \in 1..(MaxAccounts + 1) |-> PyDict([accounts |-> AccountList(n - 1)])]

\* the token the server issues to a client that logged in
SessionToken == <<"s","e","s","s","i","o","n">>

-----------------------------------------------------------------------------
(* main(): the state of one run.                                            *)

VARIABLES
    pc,        \* the position of main(), or the outcome of the run once it has ended
    locals,    \* main()'s local variables, and accounts of _test_connection (the
               \* position in Responses of the response bound to it; 0: not bound)
    mm,        \* the MonarchMoney client main() holds: [id, token]; id 0 is "none yet"
    calls,     \* the calls made to the collaborators so far, in order
    printed,   \* the messages reported to the user so far
    store,     \* the secure session store (OS keyring): "none", "prior" or "new"
    stored0,   \* what the secure session store held when the run began
    mmDir,     \* whether the client's on-disk session cache ".mm" exists
    exc        \* the exception the top-level handler caught ("none": nothing caught)

vars == <<pc, locals, mm, calls, printed, store, stored0, mmDir, exc>>

\* a local variable that is not bound yet
Unbound == <<"unbound">>

NoClient == [id |-> 0, token |-> << >>]

\* one call to a collaborator; outcome is "return" or the exception it raised
Call(op, client, args, kwargs, outcome) ==
    [op |-> op, client |-> client, args |-> args, kwargs |-> kwargs, outcome |-> outcome]

NoKwargs == {}

\* input(prompt)
Input(prompt, outcome) == Call("input", 0, <<prompt>>, NoKwargs, outcome)

\* getpass.getpass(prompt)
Getpass(prompt, outcome) == Call("getpass", 0, <<prompt>>, NoKwargs, outcome)

Terminal == {"done", "cancelled", "no_token", "validation_failed", "failed", "raised"}

Init ==
    /\ pc = "start"
    /\ locals = [has_mfa |-> Unbound, proceed |-> Unbound, auth_method |-> "unbound",
                 email |-> Unbound, password |-> Unbound, mfa_code |-> Unbound,
                 raw_token |-> Unbound, token |-> Unbound, accounts |-> 0,
                 account_count |-> -1, test_error |-> "none", save_error |-> "none"]
    /\ mm = NoClient
    /\ calls = << >>
    /\ printed = {}
    /\ store \in {"none", "prior"}
    /\ stored0 = store
    /\ mmDir \in BOOLEAN
    /\ exc = "none"

\* faulty variant: the top-level handler catches the login failure only
TopLevelHandlerNarrow(e) == IF e = "LoginFailedException" THEN "failed" ELSE "raised"

\* lines 226-229: except Exception catches every exception raised inside the try
\* block and main() returns normally
TopLevelHandler(e) == "failed"

\* one more call to a collaborator
Invoke(call) == calls' = Append(calls, call)

\* the exception e leaves the statement at the current position inside the outer try
Throw(e) ==
    /\ pc' = TopLevelHandler(e)
    /\ exc' = e
    /\ printed' = printed \cup {"Login failed"}

\* lines 132 and 144: answer in ['y', 'yes']
IsYes(answer) == answer \in { <<"y">>, <<"y","e","s">> }

\* lines 109-121: load the environment (load_dotenv reports a missing file by
\* its return value), print the banner and the library version (the version
\* check swallows its own exceptions)
Start ==
    /\ pc = "start"
    /\ pc' = "clear"
    /\ printed' = printed \cup {"banner"}
    /\ UNCHANGED <<locals, mm, calls, store, stored0, mmDir, exc>>

\* secure_session.delete_token(): nothing is stored afterwards
delete_token(stored) == "none"

\* delete_token() is safe when nothing is stored; a failing store raises
delete_token_can_raise(stored) == stored # "none"

\* faulty variant: the store and the old session files are cleared by two calls
ClearPriorSessionTwice ==
    /\ pc = "clear"
    /\ calls' = calls \o << Call("delete_token", 0, << >>, NoKwargs, "return"),
                             Call("delete_token", 0, << >>, NoKwargs, "return") >>
    /\ store' = delete_token(store)
    /\ printed' = printed \cup {"Cleared existing secure sessions"}
    /\ pc' = "ask_mfa"
    /\ UNCHANGED <<locals, mm, stored0, mmDir, exc>>

\* faulty variant: the prior session is not cleared at the start of the run
ClearPriorSessionSkipped ==
    /\ pc = "clear"
    /\ pc' = "ask_mfa"
    /\ UNCHANGED <<locals, mm, calls, printed, store, stored0, mmDir, exc>>

\* lines 125-126
ClearPriorSession ==
    /\ pc = "clear"
    /\ \/ /\ Invoke(Call("delete_token", 0, << >>, NoKwargs, "return"))
          /\ store' = delete_token(store)
          /\ printed' = printed \cup {"Cleared existing secure sessions"}
          /\ pc' = "ask_mfa"
          /\ UNCHANGED exc
       \/ /\ delete_token_can_raise(store)
          /\ Invoke(Call("delete_token", 0, << >>, NoKwargs, "KeyringError"))
          /\ Throw("KeyringError")
          /\ UNCHANGED store
    /\ UNCHANGED <<locals, mm, stored0, mmDir>>

\* input() or getpass() fails on a closed standard input
PromptFails(call) ==
    /\ Invoke(call)
    /\ Throw("EOFError")
    /\ UNCHANGED locals

\* line 132: without MFA the user is warned and asked to confirm
AfterHasMfa(has_mfa) == IF IsYes(has_mfa) THEN "choose" ELSE "ask_proceed"

\* line 130: .strip().lower() of the answer is bound and tested
HasMfaAnswered(has_mfa) ==
    /\ locals' = [locals EXCEPT !.has_mfa = has_mfa]
    /\ pc' = AfterHasMfa(has_mfa)
    /\ UNCHANGED <<printed, exc>>

\* lines 129-132
AskMfa ==
    /\ pc = "ask_mfa"
    /\ \/ /\ Invoke(Input("has_mfa", "return"))
          /\ \E typed \in AnswerInputs : HasMfaAnswered(Lower(Strip(typed)))
       \/ PromptFails(Input("has_mfa", "EOFError"))
    /\ UNCHANGED <<mm, store, stored0, mmDir>>

\* faulty variant: the answer to "Continue with login anyway?" is ignored
AfterProceedIgnored(proceed) == "choose"

\* lines 144-146: anything but y/yes cancels the run
AfterProceed(proceed) == IF IsYes(proceed) THEN "choose" ELSE "cancelled"

\* lines 143-146
ProceedAnswered(proceed) ==
    /\ locals' = [locals EXCEPT !.proceed = proceed]
    /\ pc' = AfterProceed(proceed)
    /\ printed' = printed \cup {"SECURITY RECOMMENDATION"} \cup
                    (IF AfterProceed(proceed) = "cancelled" THEN {"Login cancelled"} ELSE {})
    /\ UNCHANGED exc

\* lines 133-146
AskProceed ==
    /\ pc = "ask_proceed"
    /\ \/ /\ Invoke(Input("proceed", "return"))
          /\ \E typed \in AnswerInputs : ProceedAnswered(Lower(Strip(typed)))
       \/ PromptFails(Input("proceed", "EOFError"))
    /\ UNCHANGED <<mm, store, stored0, mmDir>>

\* line 38: the answers that select the token method
TokenChoices == { <<"2">>, <<"t","o","k","e","n">>, <<"s","s","o">>,
                  <<"a","p","p","l","e">>, <<"g","o","o","g","l","e">> }

\* lines 37-39, on what input() returned
_choose_auth_method(typed) ==
    IF Lower(Strip(typed)) \in TokenChoices THEN "token" ELSE "password"

\* line 151
AfterChoice(auth_method) == IF auth_method = "password" THEN "email" ELSE "paste_token"

\* lines 148-151
MethodChosen(auth_method) ==
    /\ locals' = [locals EXCEPT !.auth_method = auth_method]
    /\ pc' = AfterChoice(auth_method)
    /\ printed' = printed \cup {"Starting login"}
    /\ UNCHANGED exc

\* lines 148-151, with the prompt of _choose_auth_method (line 37)
ChooseMethod ==
    /\ pc = "choose"
    /\ \/ /\ Invoke(Input("choice", "return"))
          /\ \E typed \in ChoiceInputs : MethodChosen(_choose_auth_method(typed))
       \/ PromptFails(Input("choice", "EOFError"))
    /\ UNCHANGED <<mm, store, stored0, mmDir>>

\* line 152
PromptEmail ==
    /\ pc = "email"
    /\ \/ /\ Invoke(Input("Email", "return"))
          /\ \E typed \in Emails : locals' = [locals EXCEPT !.email = typed]
          /\ pc' = "password"
          /\ UNCHANGED <<printed, exc>>
       \/ PromptFails(Input("Email", "EOFError"))
    /\ UNCHANGED <<mm, store, stored0, mmDir>>

\* line 153
PromptPassword ==
    /\ pc = "password"
    /\ \/ /\ Invoke(Getpass("Password", "return"))
          /\ \E typed \in Passwords : locals' = [locals EXCEPT !.password = typed]
          /\ pc' = "construct"
          /\ UNCHANGED <<printed, exc>>
       \/ PromptFails(Getpass("Password", "EOFError"))
    /\ UNCHANGED <<mm, store, stored0, mmDir>>

\* the clients constructed so far
Constructed == {i \in 1..Len(calls) : calls[i].op = "MonarchMoney"}

\* line 154: mm = MonarchMoney()
ConstructClient ==
    /\ pc = "construct"
    /\ mm' = [id |-> Cardinality(Constructed) + 1, token |-> << >>]
    /\ Invoke(Call("MonarchMoney", Cardinality(Constructed) + 1, << >>, NoKwargs, "return"))
    /\ pc' = "login"
    /\ UNCHANGED <<locals, printed, store, stored0, mmDir, exc>>

\* faulty variant: login() is told not to save the session
LoginKwargsNoSave == {"use_saved_session=False", "save_session=False"}

\* lines 158-160: the keyword arguments of login()
LoginKwargs == {"use_saved_session=False", "save_session=True"}

\* faulty variant: a login that fails falls back to the token method
LoginHandlerFallsBackToToken(e) == IF e = "RequireMFAException" THEN "mfa_code" ELSE "paste_token"

\* lines 157-163: except RequireMFAException; any other exception leaves the try
LoginHandler(e) == IF e = "RequireMFAException" THEN "mfa_code" ELSE TopLevelHandler(e)

\* lines 163-164 or, for another exception, lines 226-229
LoginRaised(e) ==
    /\ pc' = LoginHandler(e)
    /\ exc' = IF LoginHandler(e) = "mfa_code" THEN exc ELSE e
    /\ printed' = printed \cup (IF LoginHandler(e) = "mfa_code"
                                THEN {"MFA code required"} ELSE {"Login failed"})
    /\ UNCHANGED <<mm, mmDir>>

\* lines 157-164.  A login that returns leaves the client with a token and, when
\* save_session was requested, with its session written to the cache under .mm
Login ==
    /\ pc = "login"
    /\ \/ /\ Invoke(Call("login", mm.id, <<locals.email, locals.password>>, LoginKwargs, "return"))
          /\ mm' = [mm EXCEPT !.token = SessionToken]
          /\ mmDir' = (mmDir \/ "save_session=True" \in LoginKwargs)
          /\ printed' = printed \cup {"Login successful"}
          /\ pc' = "test"
          /\ UNCHANGED exc
       \/ \E e \in LoginExceptions :
            /\ Invoke(Call("login", mm.id, <<locals.email, locals.password>>, LoginKwargs, e))
            /\ LoginRaised(e)
    /\ UNCHANGED <<locals, store, stored0>>

\* line 165
PromptMfaCode ==
    /\ pc = "mfa_code"
    /\ \/ /\ Invoke(Input("Two Factor Code", "return"))
          /\ \E typed \in MfaCodes : locals' = [locals EXCEPT !.mfa_code = typed]
          /\ pc' = "mfa"
          /\ UNCHANGED <<printed, exc>>
       \/ PromptFails(Input("Two Factor Code", "EOFError"))
    /\ UNCHANGED <<mm, store, stored0, mmDir>>

\* line 168: the same client, the original email and password, and the code
MfaCall(outcome) ==
    Call("multi_factor_authenticate", mm.id,
         <<locals.email, locals.password, locals.mfa_code>>, NoKwargs, outcome)

\* lines 168-169: the exchange runs inside the except clause, so whatever it
\* raises (RequireMFAException included) goes to the top-level handler
MultiFactorAuthenticate ==
    /\ pc = "mfa"
    /\ \/ /\ Invoke(MfaCall("return"))
          /\ mm' = [mm EXCEPT !.token = SessionToken]
          /\ printed' = printed \cup {"MFA authentication successful"}
          /\ pc' = "save_session"
          /\ UNCHANGED exc
       \/ \E e \in LoginExceptions :
            /\ Invoke(MfaCall(e))
            /\ Throw(e)
            /\ UNCHANGED mm
    /\ UNCHANGED <<locals, store, stored0, mmDir>>

\* faulty variant: the session is not saved by hand after the multi-factor exchange
SaveSessionSkipped ==
    /\ pc = "save_session"
    /\ pc' = "test"
    /\ UNCHANGED <<locals, mm, calls, printed, store, stored0, mmDir, exc>>

\* line 170: mm.save_session() writes the session to the cache under .mm
SaveSession ==
    /\ pc = "save_session"
    /\ \/ /\ Invoke(Call("save_session", mm.id, << >>, NoKwargs, "return"))
          /\ mmDir' = TRUE
          /\ pc' = "test"
          /\ UNCHANGED <<printed, exc>>
       \/ /\ Invoke(Call("save_session", mm.id, << >>, NoKwargs, "OSError"))
          /\ Throw("OSError")
          /\ UNCHANGED mmDir
    /\ UNCHANGED <<locals, mm, store, stored0>>

\* faulty variant: only a missing token is refused, not an empty one
NoTokenOnlyUnbound(token) == token = Unbound

\* line 176: if not token
NoToken(token) == token = << >>

\* lines 176-179
AfterNormalize(token) == IF NoToken(token) THEN "no_token" ELSE "construct_token"

\* lines 174-178: the pasted text and the normalized token are bound, the token
\* is tested
TokenPasted(raw_token, token) ==
    /\ locals' = [locals EXCEPT !.raw_token = raw_token, !.token = token]
    /\ pc' = AfterNormalize(token)
    /\ printed' = printed \cup {"SSO token import"} \cup
                    (IF AfterNormalize(token) = "no_token" THEN {"No token provided"} ELSE {})
    /\ UNCHANGED exc

\* lines 173-178
PasteToken ==
    /\ pc = "paste_token"
    /\ \/ /\ Invoke(Getpass("Paste Monarch token", "return"))
          /\ \E raw_token \in RawTokens : TokenPasted(raw_token, _normalize_token(raw_token))
       \/ PromptFails(Getpass("Paste Monarch token", "EOFError"))
    /\ UNCHANGED <<mm, store, stored0, mmDir>>

\* faulty variant: the client is given the pasted text, not the normalized token
ConstructTokenClientFromRaw ==
    /\ pc = "construct_token"
    /\ mm' = [id |-> Cardinality(Constructed) + 1, token |-> locals.raw_token]
    /\ Invoke(Call("MonarchMoney", Cardinality(Constructed) + 1, <<locals.raw_token>>, {"token"}, "return"))
    /\ pc' = "test"
    /\ UNCHANGED <<locals, printed, store, stored0, mmDir, exc>>

\* line 179: mm = MonarchMoney(token=token)
ConstructTokenClient ==
    /\ pc = "construct_token"
    /\ mm' = [id |-> Cardinality(Constructed) + 1, token |-> locals.token]
    /\ Invoke(Call("MonarchMoney", Cardinality(Constructed) + 1, <<locals.token>>, {"token"}, "return"))
    /\ pc' = "test"
    /\ UNCHANGED <<locals, printed, store, stored0, mmDir, exc>>

\* what awaiting mm.get_accounts() can produce: outcome 0 is an exception of the
\* request, outcome k > 0 is the k-th response
AccountsOutcome(k) == IF k = 0 THEN Raised("RequestError") ELSE Returned(Responses[k])

\* faulty variant: a failed connection test is tried again
AfterTestRetries(result) == IF result.ok THEN "publish" ELSE "test"

\* faulty variant: a failed connection test falls through to the save
AfterTestFallsThrough(result) == "publish"

\* lines 183-186: except Exception as test_error
AfterTest(result) == IF result.ok THEN "publish" ELSE "test_failed"

\* lines 102 and 184-188: the k-th response, if there is one (k > 0), is bound
\* to accounts; account_count is bound, or the exception is caught as test_error
Tested(k, result) ==
    /\ pc' = AfterTest(result)
    /\ locals' = IF result.ok
                 THEN [locals EXCEPT !.accounts = k, !.account_count = result.count]
                 ELSE [locals EXCEPT !.accounts = k, !.test_error = result.error]
    /\ printed' = printed \cup {IF result.ok THEN "Found accounts" ELSE "Connection test failed"}

\* lines 182-188, with the one get_accounts() call of _test_connection (line 102)
TestConnection ==
    /\ pc = "test"
    /\ \E k \in 0..Len(Responses) :
         /\ Invoke(Call("get_accounts", mm.id, << >>, NoKwargs,
                        IF AccountsOutcome(k).raised = "none" THEN "return"
                        ELSE AccountsOutcome(k).raised))
         /\ Tested(k, _test_connection(AccountsOutcome(k)))
    /\ UNCHANGED <<mm, store, stored0, mmDir, exc>>

\* faulty variant: the branch on the method is inverted
CleansCacheOnlyToken(auth_method) == auth_method # "password"

\* faulty variant: the token method does not return before the cache cleanup
CleansCacheAlways(auth_method) == TRUE

\* line 190: the token method returns before the cache cleanup
CleansCache(auth_method) == auth_method # "token"

\* lines 198-204: the directory is looked up and, if there, removed
CacheCalls(exists, outcome) ==
    IF exists
    THEN << Call("os.path.exists", 0, <<".mm">>, NoKwargs, "return"),
            Call("shutil.rmtree", 0, <<".mm">>, NoKwargs, outcome) >>
    ELSE << Call("os.path.exists", 0, <<".mm">>, NoKwargs, "return") >>

\* lines 190-207: the token method stops; the password method removes the
\* cache directory if it exists, ignoring a failure of the removal, and stops
HandleTestError ==
    /\ pc = "test_failed"
    /\ pc' = "validation_failed"
    /\ IF ~CleansCache(locals.auth_method)
       THEN /\ printed' = printed \cup {"Token login failed"}
            /\ UNCHANGED <<calls, mmDir>>
       ELSE \/ /\ calls' = calls \o CacheCalls(mmDir, "return")
               /\ mmDir' = FALSE
               /\ printed' = printed \cup {"Please re-run"} \cup
                               (IF mmDir THEN {"Attempting cleanup", "Cleared local .mm"} ELSE {})
            \/ /\ mmDir
               /\ calls' = calls \o CacheCalls(mmDir, "OSError")
               /\ mmDir' = mmDir
               /\ printed' = printed \cup {"Please re-run", "Attempting cleanup"}
    /\ UNCHANGED <<locals, mm, store, stored0, exc>>

\* secure_session.save_authenticated_session(mm): the session of mm is stored
save_authenticated_session(stored, handle) == "new"

\* faulty variant: the save is not guarded, its exception reaches the top-level handler
SaveErrorPropagates(e) == TopLevelHandler(e)

\* lines 215-219: except Exception as save_error, then the completion message
SaveErrorHandler(e) == "done"

\* lines 215-224 or, were the exception not caught there, lines 226-229
SaveRaised(e) ==
    /\ locals' = [locals EXCEPT !.save_error = e]
    /\ pc' = SaveErrorHandler(e)
    /\ exc' = IF SaveErrorHandler(e) = "done" THEN exc ELSE e
    /\ printed' = printed \cup (IF SaveErrorHandler(e) = "done"
                                THEN {"Could not save session", "Setup complete"}
                                ELSE {"Login failed"})

\* lines 209-224
Publish ==
    /\ pc = "publish"
    /\ \/ /\ Invoke(Call("save_authenticated_session", mm.id, << >>, NoKwargs, "return"))
          /\ store' = save_authenticated_session(store, mm)
          /\ printed' = printed \cup {"Session saved", "Setup complete"}
          /\ pc' = "done"
          /\ UNCHANGED <<locals, exc>>
       \/ /\ Invoke(Call("save_authenticated_session", mm.id, << >>, NoKwargs, "KeyringError"))
          /\ store' = store
          /\ SaveRaised("KeyringError")
    /\ UNCHANGED <<mm, stored0, mmDir>>

Next ==
    \/ Start
    \/ ClearPriorSession
    \/ AskMfa
    \/ AskProceed
    \/ ChooseMethod
    \/ PromptEmail
    \/ PromptPassword
    \/ ConstructClient
    \/ Login
    \/ PromptMfaCode
    \/ MultiFactorAuthenticate
    \/ SaveSession
    \/ PasteToken
    \/ ConstructTokenClient
    \/ TestConnection
    \/ HandleTestError
    \/ Publish

Spec == Init /\ [][Next]_vars

\* a run in which every prompt and every call of a collaborator eventually
\* returns or raises: main() is never stopped for ever at a step it can take
FairSpec == Spec /\ WF_vars(Next)

-----------------------------------------------------------------------------
(* _normalize_token on its own: the function is applied to a pasted text,   *)
(* and once more to its own result.  The texts are built from the pieces    *)
(* that the function looks for, in every order, bare or inside a wrapper.   *)

\* the largest number of pieces a text is made of
MaxParts == 3

\* the pieces of a pasted text
Parts ==
    << <<"B","e","a","r","e","r"," ">>,
       <<"B","E","A","R","E","R"," ">>,
       <<"x","y","z","1","2","3">>,
       <<"a","b","c">>,
       <<" ">>,
       <<"t","o","k","e","n"," ">>,
       <<"'">>,
       <<"a","u","t","h","o","r","i","z","a","t","i","o","n",":">> >>

\* what a text can be wrapped in: nothing, a JSON object that holds it under
\* access_token (alone, or after a token member), a JSON object that holds
\* it under another key, or double quotes
Wrappers ==
    << [pre |-> << >>, post |-> << >>],
       [pre |-> <<"{","\"","a","c","c","e","s","s","_","t","o","k","e","n","\"",":","\"">>,
        post |-> <<"\"","}">>],
       [pre |-> <<"{","\"","t","o","k","e","n","\"",":","\"","a","b","c","\"",",",
                  "\"","a","c","c","e","s","s","_","t","o","k","e","n","\"",":","\"">>,
        post |-> <<"\"","}">>],
       [pre |-> <<"{","\"","a","\"",":","\"">>, post |-> <<"\"","}">>],
       [pre |-> <<"\"">>, post |-> <<"\"">>] >>

RECURSIVE Join(_)
\* the pieces of picks, one after the other
Join(picks) == IF picks = << >> THEN << >> ELSE Parts[Head(picks)] \o Join(Tail(picks))

\* the texts of at most MaxParts pieces
Texts == {Join(picks) : picks \in UNION {[1..n -> 1..Len(Parts)] : n \in 0..MaxParts}}

\* the pasted texts
Pasted == {Wrappers[w].pre \o text \o Wrappers[w].post : w \in 1..Len(Wrappers), text \in Texts}

NormInit ==
    /\ pc = "pasted"
    /\ \E raw \in Pasted : locals = [raw_token |-> raw, token |-> Unbound, again |-> Unbound]
    /\ mm = NoClient
    /\ calls = << >>
    /\ printed = {}
    /\ store = "none"
    /\ stored0 = "none"
    /\ mmDir = FALSE
    /\ exc = "none"

\* line 175: token = _normalize_token(raw_token)
Normalize ==
    /\ pc = "pasted"
    /\ locals' = [locals EXCEPT !.token = _normalize_token(locals.raw_token)]
    /\ pc' = "normalized"
    /\ UNCHANGED <<mm, calls, printed, store, stored0, mmDir, exc>>

\* the function applied to its own result
NormalizeAgain ==
    /\ pc = "normalized"
    /\ locals' = [locals EXCEPT !.again = _normalize_token(locals.token)]
    /\ pc' = "renormalized"
    /\ UNCHANGED <<mm, calls, printed, store, stored0, mmDir, exc>>

NormNext == Normalize \/ NormalizeAgain

NormSpec == NormInit /\ [][NormNext]_vars

-----------------------------------------------------------------------------
(* Properties of a run.                                                    *)

\* the indices of the calls of the operations in ops
CallsOf(ops) == {i \in 1..Len(calls) : calls[i].op \in ops}

\* the run asked the user something
Prompts == CallsOf({"input", "getpass"})

\* calls to the API client and to the store's save
AuthCalls == CallsOf({"MonarchMoney", "login", "multi_factor_authenticate", "save_session",
                      "get_accounts", "save_authenticated_session"})

\* _test_connection returned a count in this run
Validated == locals.account_count >= 0

\* save_authenticated_session returned in this run
Saved == \E i \in CallsOf({"save_authenticated_session"}) : calls[i].outcome = "return"

\* C1: every run invokes delete_token exactly once, as its first call: before any
\* prompt, client construction, login, MFA exchange, get_accounts or
\* save_authenticated_session, whatever method is chosen and whether or not the
\* user cancels.
C1_DeleteTokenFirstAndOnce ==
    /\ Cardinality(CallsOf({"delete_token"})) <= 1
    /\ \A i \in Prompts \cup AuthCalls : \E j \in CallsOf({"delete_token"}) : j < i
    /\ pc \notin {"start", "clear"} => CallsOf({"delete_token"}) = {1}

C1_Witness ==
    /\ pc \in {"done", "cancelled"}
    /\ CallsOf({"delete_token"}) = {1}
    /\ Cardinality(Prompts) >= 2

C3_PublishOnlyValidated ==
    /\ Cardinality(CallsOf({"save_authenticated_session"})) <= 1
    /\ \A i \in CallsOf({"save_authenticated_session"}) :
         /\ Validated
         /\ locals.test_error = "none"
         /\ calls[i].client = mm.id
         /\ mm.id # 0
         /\ \E j \in CallsOf({"get_accounts"}) :
              j < i /\ calls[j].client = calls[i].client /\ calls[j].outcome = "return"

C3_Witness ==
    /\ pc = "done"
    /\ Cardinality(CallsOf({"save_authenticated_session"})) = 1
    /\ Validated

\* the first login asked for MFA and the multi-factor exchange returned
MfaPath ==
    /\ \E i \in CallsOf({"login"}) : calls[i].outcome = "RequireMFAException"
    /\ \E j \in CallsOf({"multi_factor_authenticate"}) : calls[j].outcome = "return"

\* the operations called after the multi-factor exchange, in order
OpsAfterMfa ==
    LET j == CHOOSE j \in CallsOf({"multi_factor_authenticate"}) : TRUE
    IN  [k \in 1..(Len(calls) - j) |-> calls[j + k].op]

\* the multi-factor exchange used the client, the email and the password of the
\* login, and the code that was entered
MfaReusesLogin ==
    \A i \in CallsOf({"login"}) : \A j \in CallsOf({"multi_factor_authenticate"}) :
        /\ i < j
        /\ calls[j].client = calls[i].client
        /\ calls[j].client = mm.id
        /\ calls[j].args = calls[i].args \o <<locals.mfa_code>>

\* C4: in a password run whose first login asks for MFA and whose multi-factor
\* exchange succeeds, the run makes exactly one explicit save_session call; if
\* that call returns it calls the validator exactly once; if the validation
\* succeeds it calls Publish exactly once; in that order and nothing else.
C4_MfaRunSavesValidatesPublishes ==
    MfaPath =>
        /\ MfaReusesLogin
        /\ Cardinality(CallsOf({"save_session"})) <= 1
        /\ Cardinality(CallsOf({"get_accounts"})) <= 1
        /\ Cardinality(CallsOf({"save_authenticated_session"})) <= 1
        /\ pc \in Terminal =>
            /\ Len(OpsAfterMfa) >= 1
            /\ OpsAfterMfa[1] = "save_session"
            /\ (\A i \in CallsOf({"save_session"}) : calls[i].outcome = "return")
                 => (Len(OpsAfterMfa) >= 2 /\ OpsAfterMfa[2] = "get_accounts")
            /\ Validated
                 => OpsAfterMfa = <<"save_session", "get_accounts", "save_authenticated_session">>
            /\ ~Validated => CallsOf({"save_authenticated_session"}) = {}

C4_Witness ==
    /\ pc = "done"
    /\ MfaPath
    /\ locals.mfa_code = <<"0","0","0","0","0","0">>
    /\ OpsAfterMfa = <<"save_session", "get_accounts", "save_authenticated_session">>

\* C4 as stated: every such run ends having called save_session, the validator
\* and Publish, once each and in that order (here even granted that the
\* save_session call returns).
C4_MfaRunAlwaysPublishes ==
    (/\ pc \in Terminal
     /\ MfaPath
     /\ \E i \in CallsOf({"save_session"}) : calls[i].outcome = "return")
    => OpsAfterMfa = <<"save_session", "get_accounts", "save_authenticated_session">>

\* the validation calls of a password run
PasswordValidations == IF locals.auth_method = "password" THEN CallsOf({"get_accounts"}) ELSE {}

\* C5: on the password path the session is persisted on the client before the
\* handle is validated: after a first-phase success through login's
\* save_session=True argument alone (no explicit save_session call is made),
\* after a second-phase success through an explicit save_session call.
C5_PersistedBeforeValidation ==
    \A i \in PasswordValidations :
        \/ /\ \E j \in CallsOf({"login"}) :
                /\ j < i
                /\ calls[j].outcome = "return"
                /\ "save_session=True" \in calls[j].kwargs
                /\ calls[j].client = calls[i].client
           /\ CallsOf({"save_session"}) = {}
        \/ \E j \in CallsOf({"multi_factor_authenticate"}) : \E k \in CallsOf({"save_session"}) :
                /\ j < k /\ k < i
                /\ calls[j].outcome = "return"
                /\ calls[k].outcome = "return"
                /\ calls[k].client = calls[i].client

C5_Witness ==
    /\ PasswordValidations # {}
    /\ CallsOf({"save_session"}) = {}
    /\ \E j \in CallsOf({"login"}) : calls[j].outcome = "return"

\* C5 as stated: on the password path an explicit save_session call on the
\* client precedes the validation, after a success of either phase.
C5_ExplicitSaveBeforeValidation ==
    \A i \in PasswordValidations :
        \E k \in CallsOf({"save_session"}) : k < i /\ calls[k].client = calls[i].client

\* C6: a token run whose normalized token is empty ends at once as "no token
\* provided": no client, no network call, no validation, no publish and no
\* second prompt.
C6_EmptyTokenEndsRun ==
    locals.token = << >> =>
        /\ pc = "no_token"
        /\ "No token provided" \in printed
        /\ AuthCalls = {}
        /\ mm = NoClient
        /\ calls[Len(calls)] = Getpass("Paste Monarch token", "return")
        /\ Cardinality(CallsOf({"getpass"})) = 1
        /\ exc = "none"

C6_Witness == pc = "no_token" /\ locals.token = << >> /\ locals.auth_method = "token"

\* the connection test of this run failed
TestFailed == locals.test_error # "none"

C8_SaveFailureIsNotFatal ==
    (\E i \in CallsOf({"save_authenticated_session"}) : calls[i].outcome # "return") =>
        /\ pc = "done"
        /\ Validated
        /\ {"Could not save session", "Setup complete"} \subseteq printed
        /\ "Login failed" \notin printed
        /\ exc = "none"
        /\ mm.token # << >>
        /\ calls[Len(calls)].op = "save_authenticated_session"
        /\ CallsOf({"delete_token"}) = {1}
        /\ CallsOf({"shutil.rmtree"}) = {}

C8_Witness ==
    /\ pc = "done"
    /\ locals.save_error # "none"
    /\ store = "none"
    /\ calls[Len(calls)].outcome = "KeyringError"

\* an exception that no handler inside the try block takes: any but the
\* MFA-required signal of the first login and the failures of the connection
\* test, of the cache removal and of save_authenticated_session
Unhandled(call) ==
    /\ call.outcome # "return"
    /\ ~(call.op = "login" /\ call.outcome = "RequireMFAException")
    /\ call.op \notin {"get_accounts", "shutil.rmtree", "save_authenticated_session"}

C10_DeclineCancelsBeforeAuth ==
    (locals.proceed # Unbound /\ ~IsYes(locals.proceed)) =>
        /\ ~IsYes(locals.has_mfa)
        /\ pc = "cancelled"
        /\ calls = << Call("delete_token", 0, << >>, NoKwargs, "return"),
                      Input("has_mfa", "return"), Input("proceed", "return") >>
        /\ AuthCalls = {}
        /\ locals.auth_method = "unbound"
        /\ mm = NoClient
        /\ "Login cancelled" \in printed
        /\ exc = "none"

C10_Witness ==
    /\ pc = "cancelled"
    /\ locals.has_mfa = <<"n">>
    /\ locals.proceed = <<"y","e","p">>

\* the steps of the password style: its prompts, its client, its calls
PasswordStyle ==
    CallsOf({"login", "multi_factor_authenticate", "save_session"})
    \cup {i \in Prompts : calls[i].args \in {<<"Email">>, <<"Password">>, <<"Two Factor Code">>}}
    \cup {i \in CallsOf({"MonarchMoney"}) : "token" \notin calls[i].kwargs}

\* the steps of the token style: its prompt and its client
TokenStyle ==
    {i \in Prompts : calls[i].args = <<"Paste Monarch token">>}
    \cup {i \in CallsOf({"MonarchMoney"}) : "token" \in calls[i].kwargs}

\* C11: a run holds at most one client and chooses its method once; once a step
\* of one style (password or token) is taken, no step of the other style is
\* taken; login is called at most once and the multi-factor exchange at most
\* once, the exchange only after login raised the MFA-required signal, on the
\* same client with the same email and password.
C11_OneHandleOneStyle ==
    /\ Cardinality(CallsOf({"MonarchMoney"})) <= 1
    /\ mm.id = Cardinality(CallsOf({"MonarchMoney"}))
    /\ \A i \in 1..Len(calls) : calls[i].client \in {0, mm.id}
    /\ Cardinality({i \in Prompts : calls[i].args = <<"choice">>}) <= 1
    /\ PasswordStyle = {} \/ TokenStyle = {}
    /\ PasswordStyle # {} => locals.auth_method = "password"
    /\ TokenStyle # {} => locals.auth_method = "token"
    /\ Cardinality(CallsOf({"login"})) <= 1
    /\ Cardinality(CallsOf({"multi_factor_authenticate"})) <= 1
    /\ \A j \in CallsOf({"multi_factor_authenticate"}) :
         \E i \in CallsOf({"login"}) :
            /\ i < j
            /\ calls[i].outcome = "RequireMFAException"
            /\ calls[j].client = calls[i].client
            /\ SubSeq(calls[j].args, 1, 2) = calls[i].args

C11_Witness ==
    /\ pc \in Terminal
    /\ mm.id = 1
    /\ CallsOf({"login"}) # {}
    /\ CallsOf({"multi_factor_authenticate"}) # {}
    /\ TokenStyle = {}

\* get_accounts returned a response in this run
Responded == \E i \in CallsOf({"get_accounts"}) : calls[i].outcome = "return"

\* the response that _test_connection bound to accounts
Response == Responses[locals.accounts]

\* the response is a mapping
IsMapping(response) == response.t = "dict"

\* the response is a mapping that is not empty and whose accounts entry, if it
\* has one, is a collection
IsListing(response) ==
    /\ response.t = "dict"
    /\ DOMAIN response.v # {}
    /\ "accounts" \in DOMAIN response.v => response.v["accounts"].t \in {"list", "dict"}

\* the number of accounts a listing holds: none when it has no accounts entry
Listed(response) ==
    IF "accounts" \notin DOMAIN response.v THEN 0
    ELSE IF response.v["accounts"].t = "list" THEN Len(response.v["accounts"].v)
    ELSE Cardinality(DOMAIN response.v["accounts"].v)

\* C16: _test_connection issues exactly one get_accounts call.  It fails when
\* the call raises, when the response is falsy (None, 0, an empty list, an
\* empty mapping), when it is not a mapping, and when its accounts entry is
\* not a collection; for every other response (a non-empty mapping whose
\* accounts entry is missing or a collection) it succeeds and returns the
\* number of accounts listed.  Zero accounts is a success that goes on to the
\* save; a bare number is a failure, never zero accounts.
C16_ValidatorChecksTheListing ==
    /\ Cardinality(CallsOf({"get_accounts"})) <= 1
    /\ pc \in {"publish", "done", "test_failed", "validation_failed"}
         <=> CallsOf({"get_accounts"}) # {}
    /\ (CallsOf({"get_accounts"}) # {} /\ ~Responded) =>
         /\ ~Validated
         /\ locals.test_error = calls[Min(CallsOf({"get_accounts"}))].outcome
         /\ pc \in {"test_failed", "validation_failed"}
    /\ Responded =>
         /\ locals.accounts > 0
         /\ Validated <=> IsListing(Response)
         /\ Validated <=> ~TestFailed
         /\ Validated =>
              /\ locals.account_count = Listed(Response)
              /\ pc \in {"publish", "done"}
         /\ ~Validated =>
              /\ pc \in {"test_failed", "validation_failed"}
              /\ CallsOf({"save_authenticated_session"}) = {}
              /\ locals.test_error =
                   IF IsMapping(Response) /\ DOMAIN Response.v # {}
                   THEN "TypeError" ELSE "RuntimeError"

C16_Witness ==
    /\ pc = "done"
    /\ Responded
    /\ Response = PyDict([accounts |-> PyList(<< >>)])
    /\ locals.account_count = 0
    /\ Saved

\* C16 as stated: the validator fails exactly when the response is absent or
\* not a mapping; for every mapping it succeeds with the number of accounts.
C16_FailsOnlyOnNonMapping == Responded => (Validated <=> IsMapping(Response))

\* the operations called on the client and on the store's save, in order
AuthOps(at) ==
    [k \in 1..Cardinality(at) |->
        calls[CHOOSE i \in at : Cardinality({j \in at : j <= i}) = k].op]

\* the response lists its accounts: a mapping with a list under accounts
ListsAccounts(response) ==
    /\ response.t = "dict"
    /\ "accounts" \in DOMAIN response.v
    /\ response.v["accounts"].t = "list"

HeaderLine == <<"A","u","t","h","o","r","i","z","a","t","i","o","n",":"," ",
                "B","e","a","r","e","r"," ","a","b","c",".","d","e","f","-","1","2","3">>

HeaderLineToken == <<"a","b","c",".","d","e","f","-","1","2","3">>

\* C17: in a token run whose normalized token is not empty, the client is
\* constructed from exactly the normalized token, there is no login, no
\* multi-factor exchange and no save_session; the only call on the client is
\* the one get_accounts of the validator, and when that returns a mapping that
\* lists n accounts the count is n and the run ends with exactly one
\* save_authenticated_session.  The pasted header line
\* "Authorization: Bearer abc.def-123" gives the token abc.def-123.
C17_TokenRunEndToEnd ==
    (locals.auth_method = "token" /\ locals.token \notin {Unbound, << >>}) =>
        /\ locals.raw_token = HeaderLine => locals.token = HeaderLineToken
        /\ CallsOf({"login", "multi_factor_authenticate", "save_session"}) = {}
        /\ \A i \in CallsOf({"MonarchMoney"}) :
             /\ calls[i].args = <<locals.token>>
             /\ calls[i].kwargs = {"token"}
             /\ mm = [id |-> calls[i].client, token |-> locals.token]
        /\ Cardinality(CallsOf({"MonarchMoney"})) = IF pc = "construct_token" THEN 0 ELSE 1
        /\ AuthOps(AuthCalls) \in
             { << >>, <<"MonarchMoney">>, <<"MonarchMoney", "get_accounts">>,
               <<"MonarchMoney", "get_accounts", "save_authenticated_session">> }
        /\ (Responded /\ ListsAccounts(Response)) =>
             /\ locals.account_count = Len(Response.v["accounts"].v)
             /\ pc \in {"publish", "done"}
             /\ Cardinality(CallsOf({"save_authenticated_session"})) = IF pc = "done" THEN 1 ELSE 0

C17_Witness ==
    /\ pc = "done"
    /\ locals.raw_token = HeaderLine
    /\ locals.token = HeaderLineToken
    /\ mm.token = HeaderLineToken
    /\ Response = PyDict([accounts |-> PyList(<<1, 2>>)])
    /\ locals.account_count = 2
    /\ Cardinality(CallsOf({"save_authenticated_session"})) = 1

\* the connection test failed because awaiting get_accounts raised
TransientFailure == locals.test_error = "RequestError"

\* what main() does about a response that _test_connection rejects: the token
\* method prints the wrong-or-expired-token guidance, the password method
\* looks for the .mm session cache to remove it
RejectionHandling ==
    \/ "Token login failed" \in printed
    \/ CallsOf({"os.path.exists", "shutil.rmtree"}) # {}

\* C18: a validation failure is tagged by cause: a run whose get_accounts
\* call raised (a transient or network error) does not end the way a run
\* ends whose response was absent or malformed (a rejected credential).
C18_FailureTaggedByCause ==
    (pc = "validation_failed" /\ TransientFailure) => ~RejectionHandling

\* the one place where main() itself touches the cache: the handler of a
\* failed connection test in a password run
PasswordValidationFailed == locals.auth_method = "password" /\ TestFailed

Outcomes == {"done", "cancelled", "no_token", "validation_failed", "failed"}

\* the positions of main() in the order of its text
Stages ==
    << "start", "clear", "ask_mfa", "ask_proceed", "choose",
       "email", "password", "construct", "login", "mfa_code", "mfa", "save_session",
       "paste_token", "construct_token",
       "test", "test_failed", "publish" >>

\* how far a position is into main(); every outcome is past all of them
Stage(at) ==
    IF \E k \in 1..Len(Stages) : Stages[k] = at
    THEN CHOOSE k \in 1..Len(Stages) : Stages[k] = at
    ELSE Len(Stages) + 1

-----------------------------------------------------------------------------
(* Properties of _normalize_token.                                         *)

Xyz123 == <<"x","y","z","1","2","3">>

\* where the word Bearer occurs in text, in any letter case
BearerAt(text) == {i \in 1..Len(text) : StartsWithAt(Lower(text), Bearer, i)}

\* text contains "Bearer xyz123", the word in any letter case
HasBearerXyz123(text) ==
    \E i \in BearerAt(text) : StartsWithAt(text, <<" ">> \o Xyz123, i + Len(Bearer))

\* text is wrapped in braces
Braced(text) == StartsWith(Strip(text), <<"{">>) /\ EndsWith(Strip(text), <<"}">>)

\* the first Bearer of text stands at the start or after a non-word character
\* and is followed by blanks and then by xyz123, which ends the text or is
\* followed by a blank
FirstBearerIsXyz123(text) ==
    /\ BearerAt(text) # {}
    /\ LET i == Min(BearerAt(text))
           j == SkipWhile(text, i + Len(Bearer), Whitespace)
       IN  /\ i = 1 \/ ~IsWordChar(text[i - 1])
           /\ j > i + Len(Bearer)
           /\ StartsWithAt(text, Xyz123, j)
           /\ j + Len(Xyz123) > Len(text) \/ text[j + Len(Xyz123)] \in Whitespace

\* C12: for a pasted text that is not wrapped in braces and whose first Bearer
\* (in any letter case) stands at a word boundary and is followed by blanks and
\* xyz123 up to a blank or the end, _normalize_token returns exactly xyz123.
C12_FirstBearerValueExtracted ==
    (/\ pc = "normalized"
     /\ ~Braced(locals.raw_token)
     /\ FirstBearerIsXyz123(locals.raw_token))
    => locals.token = Xyz123

C12_Witness ==
    /\ pc = "normalized"
    /\ ~Braced(locals.raw_token)
    /\ FirstBearerIsXyz123(locals.raw_token)
    /\ Min(BearerAt(locals.raw_token)) > 1
    /\ locals.token = Xyz123

\* C12 as stated: every pasted text that contains "Bearer xyz123" anywhere
\* normalizes to xyz123.
C12_AnyBearerValueExtracted ==
    (pc = "normalized" /\ HasBearerXyz123(locals.raw_token)) => locals.token = Xyz123

\* C13: _normalize_token is idempotent: applied to its own result it returns
\* that result, for any pasted text.
C13_Idempotent == pc = "renormalized" => locals.again = locals.token

\* the value of member key of a parsed text is a string that is not empty
HasString(parsed, key) ==
    parsed.ok /\ JsonGet(parsed.members, key).str /\ JsonGet(parsed.members, key).val # << >>

\* the value of member key of a parsed text is a string that is not blank
HasNonBlank(parsed, key) ==
    parsed.ok /\ JsonGet(parsed.members, key).str /\ Strip(JsonGet(parsed.members, key).val) # << >>

\* a Bearer or Token pattern is present in text
HasPattern(text) == HeaderMatches(text, Bearer) \cup HeaderMatches(text, Token) # {}

\* the pasted text is a JSON object whose access_token is the non-empty string
\* v, and holds no Bearer or Token pattern: the result is v
AccessTokenReturned(raw, parsed, token) ==
    (HasString(parsed, AccessTokenSnake) /\ ~HasPattern(raw))
    => token = JsonGet(parsed.members, AccessTokenSnake).val

\* the same, for an object without a non-blank token member and a non-blank v
\* that holds no pattern: the result is v without the whitespace and then
\* without the quote characters around it
AccessTokenTrimmed(raw, parsed, token) ==
    (/\ HasNonBlank(parsed, AccessTokenSnake)
     /\ ~HasNonBlank(parsed, Token)
     /\ ~HasPattern(raw)
     /\ ~HasPattern(JsonGet(parsed.members, AccessTokenSnake).val))
    => token = StripChars(Strip(JsonGet(parsed.members, AccessTokenSnake).val), Quotes)

\* C14: for a pasted JSON object whose access_token is a non-blank string v,
\* which has no non-blank string under token, and where neither the text nor v
\* holds a Bearer or Token pattern, _normalize_token returns v without its
\* surrounding whitespace and, after that, without its surrounding quotes.
C14_AccessTokenValueTrimmed ==
    pc = "normalized" => AccessTokenTrimmed(locals.raw_token, JsonLoads(locals.raw_token), locals.token)

\* a value with a quote and a blank around it was unwrapped and trimmed
TrimmedValue(parsed, token) ==
    /\ HasNonBlank(parsed, AccessTokenSnake)
    /\ ~HasNonBlank(parsed, Token)
    /\ token # JsonGet(parsed.members, AccessTokenSnake).val
    /\ token = StripChars(Strip(JsonGet(parsed.members, AccessTokenSnake).val), Quotes)
    /\ token = <<"a","b","c">>

C14_Witness ==
    /\ pc = "normalized"
    /\ ~HasPattern(locals.raw_token)
    /\ TrimmedValue(JsonLoads(locals.raw_token), locals.token)

\* C14 as stated: for every pasted JSON object whose access_token is a non-empty
\* string v and that holds no Bearer or Token pattern, the result is exactly v.
C14_AccessTokenValueReturned ==
    pc = "normalized" => AccessTokenReturned(locals.raw_token, JsonLoads(locals.raw_token), locals.token)

\* text starts with the header prefix "bearer " or "token ", in any letter case
HasPrefix(text) == \E k \in 1..Len(Prefixes) : StartsWith(Lower(text), Prefixes[k])

\* text starts or ends with a quote character
HasQuotesAround(text) == text # << >> /\ (text[1] \in Quotes \/ text[Len(text)] \in Quotes)

\* text is a JSON object
IsJsonObject(text, parsed) == Braced(text) /\ parsed.ok

\* C15: the result of _normalize_token has no header prefix, no quote
\* characters around it and is not a JSON object, and an empty or blank pasted
\* text gives the empty result.
C15_ResultIsCleanToken ==
    pc = "normalized" =>
        /\ ~HasPrefix(locals.token)
        /\ ~HasQuotesAround(locals.token)
        /\ ~IsJsonObject(locals.token, JsonLoads(locals.token))
        /\ Strip(locals.raw_token) = << >> => locals.token = << >>

====
